---- MODULE Spec2Model ----
(***************************************************************************)
(* Model of the Telegram polling bot: scripts/polling_bot_unified.py (the  *)
(* asyncio variant, one event loop, shutdown_event) and                    *)
(* scripts/polling_bot_threading.py (the lifecycle in its own thread,      *)
(* os._exit on completion).  One BotManager, one poll lifecycle per run,   *)
(* one PollAnswerHandler.                                                  *)
(*                                                                         *)
(* A step of the lifecycle runs from one await to the next: an awaited     *)
(* call returns or raises, the code up to the next await runs, and the     *)
(* next call is issued (the coroutine suspends).                           *)
(* pymongo's insert_one is a blocking call and is one step.                *)
(***************************************************************************)
EXTENDS Integers, Sequences, FiniteSets, TLC

(* ---------------------------------------------------------------- bounds *)
\* Voters that may send poll answers.
NumVoters == 1
\* Largest per-option voter_count a stop_poll response carries.
MaxVotes == 1
\* Longest message_ids list, and largest message id, that ApiSpec hands to
\* _cleanup_and_save.
MaxTracked == 3

\* Largest duration, in minutes, MainSpec configures besides the defaults.
MaxMins == 2

\* Most options of a closed poll TallySpec hands to _process_poll_results.
MaxOptions == 3
\* Largest per-option voter_count of those closed polls.
MaxTally == 2

(* ------------------------------------------------------------- constants *)
\* POLL_OPTIONS: the default 'Option A,Option B'.split(',').
POLL_OPTIONS == <<"Option A", "Option B">>

\* Python's None for identifiers and message objects (falsy, like 0).
None == 0
\* Python's None where the value is otherwise a string.
NoneStr == "None"
\* current_time.date().isoformat() of the run.
Today == "date"
\* datetime.now(UTC).isoformat() taken when the poll is closed.
EndTime == "end_time"
\* datetime.now(UTC).isoformat() taken when a poll answer is handled.
VoteTime == "vote_time"

\* int(os.environ.get('POLL_DURATION_IN_MINS', 60))
DefaultPollDuration == 60
\* int(os.environ.get('REMINDER_MINS', 15))
DefaultReminder == 15

PollStatus == [ACTIVE |-> "active", CLOSED |-> "closed", CANCELLED |-> "cancelled"]

Variants == {"unified", "threading"}
Voters == 1 .. NumVoters
\* poll ids a poll answer can carry: the poll of this run.
PollIds == {"p1"}
\* option_ids of a poll answer: empty on a retracted vote, else one index;
\* Len(POLL_OPTIONS) is the first index out of range.
OptionIds == {<<>>} \cup {<<i>> : i \in 0 .. Len(POLL_OPTIONS)}
\* voter_count per option in a stop_poll response.
VoteCounts == [1 .. Len(POLL_OPTIONS) -> 0 .. MaxVotes]

VARIABLES
    variant,          \* which script runs
    db_available,     \* db_votes / db_polls are not None
    image_path,       \* enable_image and image_path given to post_poll
    TG_BOT_API_TOKEN, \* the environment variable is set
    TG_CHAT_ID,       \* int(os.environ.get('TG_CHAT_ID', 0))
    POLL_DURATION_IN_MINS,
    REMINDER_MINS,
    pc,               \* position of the lifecycle task (post_poll)
    poll_payload,     \* BotManager.poll_payload
    reminder_message, \* local of _run_poll_lifecycle: message id or None
    winning_option,   \* local of _close_and_process_poll
    todo,             \* ids _cleanup_and_save has still to iterate over
    shutdown_event,   \* asyncio.Event (unified)
    next_message_id,  \* the chat's next message id (chat service)
    effects,          \* history: external effects, in the order issued
    db_polls,         \* polls collection: documents inserted
    db_votes,         \* votes collection: documents inserted
    last_answer,      \* history: the poll answer handled last, and its outcome
    runner,           \* position of run_bot_async / main
    cancel_requested, \* poll_task.cancel() was called
    app,              \* telegram Application / Updater state
    mongo_closed,     \* mongo_client.close() was called
    exit_code         \* -1 while the process runs, else its exit status

vars == <<variant, db_available, image_path, TG_BOT_API_TOKEN, TG_CHAT_ID,
          POLL_DURATION_IN_MINS, REMINDER_MINS, pc, poll_payload, reminder_message,
          winning_option, todo, shutdown_event, next_message_id, effects,
          db_polls, db_votes, last_answer, runner, cancel_requested, app,
          mongo_closed, exit_code>>

configVars == <<variant, db_available, image_path, TG_BOT_API_TOKEN, TG_CHAT_ID,
                POLL_DURATION_IN_MINS, REMINDER_MINS>>
voteVars == <<db_votes, last_answer>>
runnerVars == <<runner, cancel_requested, app, mongo_closed>>

(* -------------------------------------------------------------- helpers *)
RECURSIVE SumSeq(_)
SumSeq(s) == IF s = <<>> THEN 0 ELSE Head(s) + SumSeq(Tail(s))

RECURSIVE MaxSeq(_, _)
MaxSeq(s, m) == IF s = <<>> THEN m
                ELSE MaxSeq(Tail(s), IF Head(s) > m THEN Head(s) ELSE m)

RECURSIVE JoinComma(_)
JoinComma(s) == IF s = <<>> THEN <<>>
                ELSE IF Len(s) = 1 THEN <<Head(s)>>
                ELSE <<Head(s), ", ">> \o JoinComma(Tail(s))

Range(s) == {s[i] : i \in 1 .. Len(s)}

Effect(op, ev, arg) == [op |-> op, ev |-> ev, arg |-> arg]

Running == exit_code = -1

\* The listener hands poll answers to receive_poll_answer while the updater
\* polls and the application runs.
Listening == Running /\ app.running /\ app.updater_running

(* ----------------------------------------------------------------- Init *)
\* BotManager.__init__ -> poll_payload.  The unified script adds the keys
\* poll_start_time and poll_end_time later; an absent key reads as None.
InitialPayload ==
    [_id |-> NoneStr,
     message_ids |-> <<>>,
     poll_creation_date |-> NoneStr,
     poll_message_id |-> None,
     total_votes |-> 0,
     option_votes |-> <<>>,
     status |-> PollStatus.ACTIVE,
     poll_question |-> NoneStr,
     poll_options |-> <<>>,
     poll_start_time |-> NoneStr,
     poll_end_time |-> NoneStr]

NoAnswer == [user_id |-> None, poll_id |-> NoneStr, option_ids |-> <<>>,
             outcome |-> "none"]

InitialApp == [running |-> FALSE, updater_running |-> FALSE,
               polling_task |-> "none",
               updater_stops |-> 0, app_stops |-> 0, app_shutdowns |-> 0]

\* The process as the interpreter has loaded the module, main not yet called.
ProcessInit ==
    /\ variant \in Variants
    /\ db_available \in BOOLEAN
    /\ image_path \in BOOLEAN
    /\ pc = "not_started"
    /\ poll_payload = InitialPayload
    /\ reminder_message = None
    /\ winning_option = <<>>
    /\ todo = <<>>
    /\ shutdown_event = FALSE
    /\ next_message_id = 1
    /\ effects = <<>>
    /\ db_polls = <<>>
    /\ db_votes = {}
    /\ last_answer = NoAnswer
    /\ runner = "startup"
    /\ cancel_requested = FALSE
    /\ app = InitialApp
    /\ mongo_closed = FALSE
    /\ exit_code = -1

\* A run with the credential and the chat id set and the default durations.
Init ==
    /\ ProcessInit
    /\ TG_BOT_API_TOKEN = TRUE
    /\ TG_CHAT_ID = 1
    /\ POLL_DURATION_IN_MINS = DefaultPollDuration
    /\ REMINDER_MINS = DefaultReminder

(* ----------------------------------------------- the chat service (RPC) *)
\* A message the chat service returns: its fresh message id.
NewMessage == next_message_id

(* -------------------------------------------------- BotManager: helpers *)
\* update_poll_data (unified) and the inline assignments of post_poll
\* (threading).  The unified script replaces message_ids and sets the status
\* to ACTIVE again; the threading script appends to message_ids.
update_poll_data(payload, message_id) ==
    [payload EXCEPT !._id = "p1",
                    !.poll_message_id = message_id,
                    !.poll_creation_date = Today,
                    !.poll_start_time = IF variant = "unified" THEN "start_time" ELSE @,
                    !.poll_question = "Daily Poll",
                    !.poll_options = POLL_OPTIONS,
                    !.message_ids = IF variant = "unified" THEN <<message_id>>
                                    ELSE Append(@, message_id),
                    !.status = IF variant = "unified" THEN PollStatus.ACTIVE ELSE @]

\* add_message_id: `if message_id:` then append.
add_message_id(payload, message_id) ==
    IF message_id # None
    THEN [payload EXCEPT !.message_ids = Append(@, message_id)]
    ELSE payload

(* ------------------------------------------------ control flow of a step *)
\* A step of the lifecycle task runs from the await that resumed it to the
\* next await.  `log` is what the step has done so far; each operator below
\* ends the step.

\* The step ends at `await <op>(arg)`: the call is issued, the task suspends.
Await(log, op, arg, at) ==
    /\ effects' = effects \o log \o <<Effect(op, "call", arg)>>
    /\ pc' = at
    /\ UNCHANGED <<shutdown_event, exit_code>>

\* _shutdown.  unified: shutdown_event.set(), then await asyncio.sleep(0.1).
\* threading: loop.stop(); os._exit(0).
_shutdown(log) ==
    IF variant = "unified"
    THEN /\ shutdown_event' = TRUE
         /\ effects' = effects \o log \o <<Effect("shutdown", "set", None)>>
         /\ pc' = "sd_sleep"
         /\ UNCHANGED exit_code
    ELSE /\ effects' = effects \o log \o <<Effect("shutdown", "exit", None)>>
         /\ pc' = "exited"
         /\ exit_code' = 0
         /\ UNCHANGED shutdown_event

\* Raise with the `await self._shutdown(application)` of the unified handlers
\* left out: the error is logged and the task ends.
Raise_no_shutdown(log) ==
    /\ effects' = effects \o log
    /\ pc' = IF variant = "unified" THEN "failed" ELSE "exited"
    /\ exit_code' = IF variant = "unified" THEN exit_code ELSE 1
    /\ UNCHANGED shutdown_event

\* An exception leaves the lifecycle.  unified: the `except Exception` of
\* _run_poll_lifecycle or of post_poll logs it and awaits _shutdown.
\* threading: the `except Exception` of post_poll calls os._exit(1).
Raise(log) ==
    IF variant = "unified"
    THEN _shutdown(log)
    ELSE /\ effects' = effects \o log
         /\ pc' = "exited"
         /\ exit_code' = 1
         /\ UNCHANGED shutdown_event

lifecycleFrame == UNCHANGED <<configVars, voteVars, runnerVars>>

(* ---------------------------------------------------- _cleanup_and_save *)
\* The order in which _cleanup_and_save walks the tracked ids: the list
\* itself (unified), or set(message_ids) in any order (threading).
IterationOrders(payload) ==
    IF variant = "unified"
    THEN {payload.message_ids}
    ELSE LET ids == Range(payload.message_ids)
         IN  {s \in [1 .. Cardinality(ids) -> ids] : Range(s) = ids}

\* `if message_id != self.poll_payload["poll_message_id"]`: the ids the loop
\* passes over without a call.
RECURSIVE SkipPoll(_, _)
SkipPoll(ids, poll_message_id) ==
    IF ids # <<>> /\ Head(ids) = poll_message_id
    THEN SkipPoll(Tail(ids), poll_message_id)
    ELSE ids

\* SavePollData inserting the record a second time.
SavePollData_twice(log, payload) ==
    /\ db_polls' = IF db_available THEN <<payload, payload>> ELSE db_polls
    /\ poll_payload' = payload
    /\ _shutdown(log \o <<Effect("insert_poll", "call", None),
                          Effect("insert_poll", "ret", None)>>)

\* SavePollData followed by reset_poll_payload().
SavePollData_reset(log, payload) ==
    /\ db_polls' = IF db_available THEN Append(db_polls, payload) ELSE db_polls
    /\ poll_payload' = [payload EXCEPT !.status = PollStatus.ACTIVE,
                                       !.message_ids = <<>>]
    /\ _shutdown(log \o <<Effect("insert_poll", "call", None),
                          Effect("insert_poll", "ret", None)>>)

\* `if db_polls is not None: db_polls.insert_one(self.poll_payload)`, then
\* back in _run_poll_lifecycle, _shutdown.  The insert is not guarded: a
\* store error raises into the lifecycle.
SavePollData(log, payload) ==
    IF db_available
    THEN \E ok \in BOOLEAN :
         IF ok
         THEN /\ db_polls' = Append(db_polls, payload)
              /\ poll_payload' = payload
              /\ _shutdown(log \o <<Effect("insert_poll", "call", None),
                                    Effect("insert_poll", "ret", None)>>)
         ELSE /\ UNCHANGED db_polls
              /\ poll_payload' = payload
              /\ Raise(log \o <<Effect("insert_poll", "call", None),
                                Effect("insert_poll", "raise", None)>>)
    ELSE /\ UNCHANGED db_polls
         /\ poll_payload' = payload
         /\ _shutdown(log)

\* The loop of _cleanup_and_save over the ids still to visit, up to its next
\* await; after the loop `if reminder_message:` delete it; then save.
CleanupLoop(log, payload, ids, reminder) ==
    LET rest == SkipPoll(ids, payload.poll_message_id)
    IN  IF rest # <<>>
        THEN /\ Await(log, "delete_message", Head(rest), "in_delete")
             /\ todo' = Tail(rest)
             /\ poll_payload' = payload
             /\ UNCHANGED db_polls
        ELSE IF reminder # None
        THEN /\ Await(log, "delete_message", reminder, "in_delete_reminder")
             /\ todo' = <<>>
             /\ poll_payload' = payload
             /\ UNCHANGED db_polls
        ELSE /\ todo' = <<>>
             /\ SavePollData(log, payload)

\* DeleteMessageReturn with delete_message letting its exception through: a
\* failed deletion raises out of _cleanup_and_save.
DeleteMessageReturn_propagates ==
    /\ Running /\ pc = "in_delete"
    /\ \E ok \in BOOLEAN :
        IF ok
        THEN CleanupLoop(<<Effect("delete_message", "ret", None)>>,
                         poll_payload, todo, reminder_message)
        ELSE /\ Raise(<<Effect("delete_message", "raise", None)>>)
             /\ UNCHANGED <<poll_payload, todo, db_polls>>
    /\ UNCHANGED <<reminder_message, winning_option, next_message_id>>
    /\ lifecycleFrame

\* delete_message returned or raised (logged, not propagated): the loop goes on.
DeleteMessageReturn ==
    /\ Running /\ pc = "in_delete"
    /\ \E ok \in BOOLEAN :
        CleanupLoop(<<Effect("delete_message", IF ok THEN "ret" ELSE "raise", None)>>,
                    poll_payload, todo, reminder_message)
    /\ UNCHANGED <<reminder_message, winning_option, next_message_id>>
    /\ lifecycleFrame

\* delete_message of the reminder returned or raised: on to the save.
DeleteReminderReturn ==
    /\ Running /\ pc = "in_delete_reminder"
    /\ \E ok \in BOOLEAN :
        SavePollData(<<Effect("delete_message", IF ok THEN "ret" ELSE "raise", None)>>,
                     poll_payload)
    /\ UNCHANGED <<reminder_message, winning_option, todo, next_message_id>>
    /\ lifecycleFrame

(* --------------------------------------------- _close_and_process_poll *)
\* percentage = (vote_count / total_votes) * 100, kept exact as the pair
\* <<vote_count * 100, total_votes>>.
Percentage(vote_count, total_votes) == <<vote_count * 100, total_votes>>

\* The Poll object bot.stop_poll returns: its options (text, voter_count) and
\* total_voter_count; one answer per voter, so the total is the sum.
ClosedPoll(texts, counts) ==
    [total_voter_count |-> SumSeq(counts),
     options |-> [i \in 1 .. Len(counts) |->
                     [text |-> texts[i], voter_count |-> counts[i]]]]

\* The option_votes list _process_poll_results builds when total_votes > 0.
OptionVotes(options, total_votes) ==
    [i \in 1 .. Len(options) |->
        [option_text |-> options[i].text,
         votes |-> options[i].voter_count,
         percentage |-> Percentage(options[i].voter_count, total_votes)]]

\* max_votes = max(max_votes, vote_count) over the options, from 0.
MaxVotesOf(option_votes) ==
    MaxSeq([i \in 1 .. Len(option_votes) |-> option_votes[i].votes], 0)

\* Winners taking every option that got a vote.
Winners_all_voted(option_votes) ==
    SelectSeq(option_votes, LAMBDA opt : opt.votes > 0)

\* Winners taking only the first option with the maximum.
Winners_first_only(option_votes) ==
    LET k == CHOOSE k \in 1 .. Len(option_votes) :
                /\ option_votes[k].votes = MaxVotesOf(option_votes)
                /\ \A j \in 1 .. k - 1 :
                    option_votes[j].votes # MaxVotesOf(option_votes)
    IN  <<option_votes[k]>>

\* winners = [opt for opt in option_votes if opt["votes"] == max_votes]
Winners(option_votes) ==
    SelectSeq(option_votes, LAMBDA opt : opt.votes = MaxVotesOf(option_votes))

\* _process_poll_results without its `if total_votes > 0`.
_process_poll_results_unguarded(closed_poll, total_votes) ==
    LET option_votes == OptionVotes(closed_poll.options, total_votes)
        names == [i \in 1 .. Len(option_votes) |-> option_votes[i].option_text]
    IN  [option_votes |-> option_votes,
         winning_option |-> <<"Tie between: ">> \o JoinComma(names)]

\* _process_poll_results: the tally stored in the payload and the winner
\* text returned (a string, as the sequence of its pieces).
_process_poll_results(closed_poll, total_votes) ==
    IF total_votes > 0
    THEN LET option_votes == OptionVotes(closed_poll.options, total_votes)
             winners == Winners(option_votes)
             names == [i \in 1 .. Len(winners) |-> winners[i].option_text]
         IN  [option_votes |-> option_votes,
              winning_option |->
                  IF Len(winners) > 1
                  THEN <<"Tie between: ">> \o JoinComma(names)
                  ELSE <<winners[1].option_text>>]
    ELSE [option_votes |-> <<>>, winning_option |-> <<"No votes received">>]

\* ClosePayload leaving the end timestamp unset.
ClosePayload_no_end_time(payload, total_votes, option_votes) ==
    [payload EXCEPT !.total_votes = total_votes,
                    !.status = PollStatus.CLOSED,
                    !.option_votes = option_votes]

\* The payload update of _close_and_process_poll after stop_poll returned,
\* with the option_votes _process_poll_results stores.
ClosePayload(payload, total_votes, option_votes) ==
    [payload EXCEPT !.total_votes = total_votes,
                    !.status = PollStatus.CLOSED,
                    !.poll_end_time = EndTime,
                    !.option_votes = option_votes]

\* stop_poll returned the closed poll (total_voter_count, options): the
\* payload is updated, the results are processed and _send_conclusion awaits
\* bot.send_message.
StopPollOk ==
    /\ Running /\ pc = "in_stop_poll"
    /\ \E counts \in VoteCounts :
        LET closed_poll == ClosedPoll(POLL_OPTIONS, counts)
            total_votes == closed_poll.total_voter_count
            res == _process_poll_results(closed_poll, total_votes)
        IN  /\ poll_payload' = ClosePayload(poll_payload, total_votes,
                                            res.option_votes)
            /\ winning_option' = res.winning_option
            /\ Await(<<Effect("stop_poll", "ret", closed_poll),
                       Effect("tally", "done", res.winning_option)>>,
                     "send_conclusion", res.winning_option, "in_send_conclusion")
    /\ UNCHANGED <<reminder_message, todo, next_message_id, db_polls>>
    /\ lifecycleFrame

\* StopPollRaise with the failure of stop_poll caught and logged inside
\* _close_and_process_poll, which goes on with no votes.
StopPollRaise_swallowed ==
    /\ Running /\ pc = "in_stop_poll"
    /\ winning_option' = <<"No votes received">>
    /\ Await(<<Effect("stop_poll", "raise", None),
               Effect("tally", "done", <<"No votes received">>)>>,
             "send_conclusion", <<"No votes received">>, "in_send_conclusion")
    /\ UNCHANGED <<poll_payload, reminder_message, todo, next_message_id,
                   db_polls>>
    /\ lifecycleFrame

\* stop_poll raised: nothing of _close_and_process_poll runs.
StopPollRaise ==
    /\ Running /\ pc = "in_stop_poll"
    /\ Raise(<<Effect("stop_poll", "raise", None)>>)
    /\ UNCHANGED <<poll_payload, reminder_message, winning_option, todo,
                   next_message_id, db_polls>>
    /\ lifecycleFrame

\* _send_conclusion has no handler of its own: a failed send raises into
\* _run_poll_lifecycle.  On return _cleanup_and_save starts its loop.
SendConclusionReturn ==
    /\ Running /\ pc = "in_send_conclusion"
    /\ \E ok \in BOOLEAN :
        IF ok
        THEN /\ next_message_id' = next_message_id + 1
             /\ \E ids \in IterationOrders(poll_payload) :
                 CleanupLoop(<<Effect("send_conclusion", "ret", NewMessage)>>,
                             poll_payload, ids, reminder_message)
        ELSE /\ Raise(<<Effect("send_conclusion", "raise", None)>>)
             /\ UNCHANGED <<next_message_id, todo, poll_payload, db_polls>>
    /\ UNCHANGED <<reminder_message, winning_option>>
    /\ lifecycleFrame

(* ------------------------------------------------- _run_poll_lifecycle *)
\* _run_poll_lifecycle with the first asyncio.sleep not awaited: the reminder
\* is sent while the sleep has not returned.
_run_poll_lifecycle_no_await(log) ==
    /\ effects' = effects \o log \o <<Effect("sleep1", "call", None),
                                      Effect("send_reminder", "call", None)>>
    /\ pc' = "in_send_reminder"
    /\ UNCHANGED <<shutdown_event, exit_code>>

\* _run_poll_lifecycle waiting the whole poll duration before the reminder.
_run_poll_lifecycle_full_wait(log) ==
    Await(log, "sleep1", POLL_DURATION_IN_MINS * 60, "in_sleep1")

\* _run_poll_lifecycle starts:
\* await asyncio.sleep((POLL_DURATION_IN_MINS - REMINDER_MINS) * 60)
_run_poll_lifecycle(log) ==
    Await(log, "sleep1", (POLL_DURATION_IN_MINS - REMINDER_MINS) * 60, "in_sleep1")

\* The first sleep is over: _send_reminder awaits bot.send_message.
Sleep1Return ==
    /\ Running /\ pc = "in_sleep1"
    /\ Await(<<Effect("sleep1", "ret", None)>>, "send_reminder", None,
             "in_send_reminder")
    /\ UNCHANGED <<poll_payload, reminder_message, winning_option, todo,
                   next_message_id, db_polls>>
    /\ lifecycleFrame

\* _send_reminder has no handler of its own: a failed send raises into
\* _run_poll_lifecycle.  On return: await asyncio.sleep(REMINDER_MINS * 60).
SendReminderReturn ==
    /\ Running /\ pc = "in_send_reminder"
    /\ \E ok \in BOOLEAN :
        IF ok
        THEN /\ next_message_id' = next_message_id + 1
             /\ reminder_message' = NewMessage
             /\ Await(<<Effect("send_reminder", "ret", NewMessage)>>,
                      "sleep2", REMINDER_MINS * 60, "in_sleep2")
        ELSE /\ Raise(<<Effect("send_reminder", "raise", None)>>)
             /\ UNCHANGED <<next_message_id, reminder_message>>
    /\ UNCHANGED <<poll_payload, winning_option, todo, db_polls>>
    /\ lifecycleFrame

\* The second sleep is over: _close_and_process_poll awaits bot.stop_poll on
\* poll_payload["poll_message_id"].
Sleep2Return ==
    /\ Running /\ pc = "in_sleep2"
    /\ Await(<<Effect("sleep2", "ret", None)>>, "stop_poll",
             poll_payload.poll_message_id, "in_stop_poll")
    /\ UNCHANGED <<poll_payload, reminder_message, winning_option, todo,
                   next_message_id, db_polls>>
    /\ lifecycleFrame

(* ------------------------------------------------------------ post_poll *)
\* The task (thread) runs post_poll up to `await bot.send_poll(...)`.
PostPollStart ==
    /\ Running /\ pc = "created"
    /\ Await(<<>>, "send_poll", None, "in_send_poll")
    /\ UNCHANGED <<poll_payload, reminder_message, winning_option, todo,
                   next_message_id, db_polls>>
    /\ lifecycleFrame

\* bot.send_poll returned the poll message: the payload is updated; with an
\* image _send_image awaits bot.send_photo, else _run_poll_lifecycle starts.
\* Or it raised, into the handler of post_poll.
SendPollReturn ==
    /\ Running /\ pc = "in_send_poll"
    /\ \E ok \in BOOLEAN :
        IF ok
        THEN /\ next_message_id' = next_message_id + 1
             /\ poll_payload' = update_poll_data(poll_payload, NewMessage)
             /\ IF image_path
                THEN Await(<<Effect("send_poll", "ret", NewMessage)>>,
                           "send_image", None, "in_send_image")
                ELSE _run_poll_lifecycle(<<Effect("send_poll", "ret", NewMessage)>>)
        ELSE /\ Raise(<<Effect("send_poll", "raise", None)>>)
             /\ UNCHANGED <<next_message_id, poll_payload>>
    /\ UNCHANGED <<reminder_message, winning_option, todo, db_polls>>
    /\ lifecycleFrame

\* SendImageReturn with send_image letting its exception through to post_poll.
SendImageReturn_propagates ==
    /\ Running /\ pc = "in_send_image"
    /\ \E ok \in BOOLEAN :
        IF ok
        THEN /\ next_message_id' = next_message_id + 1
             /\ poll_payload' = add_message_id(poll_payload, NewMessage)
             /\ _run_poll_lifecycle(<<Effect("send_image", "ret", NewMessage)>>)
        ELSE /\ UNCHANGED <<next_message_id, poll_payload>>
             /\ Raise(<<Effect("send_image", "raise", None)>>)
    /\ UNCHANGED <<reminder_message, winning_option, todo, db_polls>>
    /\ lifecycleFrame

\* send_image returned the message, whose id _send_image tracks, or logged
\* the failure and returned None; then _run_poll_lifecycle starts.
SendImageReturn ==
    /\ Running /\ pc = "in_send_image"
    /\ \E ok \in BOOLEAN :
        IF ok
        THEN /\ next_message_id' = next_message_id + 1
             /\ poll_payload' = add_message_id(poll_payload, NewMessage)
             /\ _run_poll_lifecycle(<<Effect("send_image", "ret", NewMessage)>>)
        ELSE /\ UNCHANGED <<next_message_id, poll_payload>>
             /\ _run_poll_lifecycle(<<Effect("send_image", "raise", None)>>)
    /\ UNCHANGED <<reminder_message, winning_option, todo, db_polls>>
    /\ lifecycleFrame

(* ---------------------------------------------------------- cancellation *)
\* CancelDelivered reaching the task one await later: _shutdown has got past
\* its sleep and has stopped the updater and the application and shut the
\* application down when CancelledError is raised.
CancelDelivered_late ==
    /\ Running /\ pc = "sd_sleep"
    /\ cancel_requested
    /\ pc' = "cancelled"
    /\ app' = [app EXCEPT
                !.updater_stops = IF app.updater_running THEN @ + 1 ELSE @,
                !.updater_running = FALSE,
                !.app_stops = IF app.running THEN @ + 1 ELSE @,
                !.running = FALSE,
                !.app_shutdowns = @ + 1]
    /\ UNCHANGED <<poll_payload, reminder_message, winning_option, todo,
                   next_message_id, db_polls, effects, exit_code,
                   shutdown_event, configVars, voteVars, runner,
                   cancel_requested, mongo_closed>>

\* The runner, woken by the event before the 0.1 s timer can fire (the loop
\* runs ready callbacks in order), has cancelled poll_task: CancelledError is
\* raised at the sleep of _shutdown; it is no Exception, so no handler of
\* _shutdown, _run_poll_lifecycle or post_poll catches it, and the rest of
\* _shutdown (updater.stop, application.stop, application.shutdown,
\* mongo_client.close) does not run in poll_task.
CancelDelivered ==
    /\ Running /\ pc = "sd_sleep"
    /\ cancel_requested
    /\ pc' = "cancelled"
    /\ UNCHANGED <<poll_payload, reminder_message, winning_option, todo,
                   next_message_id, db_polls, effects, exit_code,
                   shutdown_event>>
    /\ lifecycleFrame

\* SuspendedAt with the two waits blocking the thread (time.sleep) instead of
\* suspending the task.
SuspendedAt_blocking_sleep ==
    {"in_send_poll", "in_send_image", "in_send_reminder", "in_stop_poll",
     "in_send_conclusion", "in_delete", "in_delete_reminder", "sd_sleep",
     "cancelled"}

\* The awaits at which the lifecycle task is suspended.
SuspendedAt == {"in_send_poll", "in_send_image", "in_sleep1", "in_send_reminder",
                "in_sleep2", "in_stop_poll", "in_send_conclusion", "in_delete",
                "in_delete_reminder", "sd_sleep", "cancelled"}

(* ------------------------------------------------------------------ main *)
\* ConfigValid without the check of TG_CHAT_ID.
ConfigValid_no_chat_check ==
    /\ TG_BOT_API_TOKEN
    /\ variant = "unified" => POLL_DURATION_IN_MINS > REMINDER_MINS

\* The checks at the head of main.  unified: a missing token, a missing (zero)
\* chat id or POLL_DURATION_IN_MINS <= REMINDER_MINS raises BotConfigError out
\* of main.  threading: a missing token or chat id makes main return; the
\* durations are not checked.
ConfigValid ==
    /\ TG_BOT_API_TOKEN
    /\ TG_CHAT_ID # 0
    /\ variant = "unified" => POLL_DURATION_IN_MINS > REMINDER_MINS

(* ------------------------------------------------ run_bot_async (unified) *)
runnerFrame == UNCHANGED <<configVars, voteVars, poll_payload, reminder_message,
                           winning_option, todo, shutdown_event,
                           next_message_id, effects, db_polls, mongo_closed>>

\* main up to asyncio.run(run_bot_async()) (unified) or up to the creation of
\* the application (threading); on a configuration error the process ends,
\* with the traceback's status 1 (unified) or by returning (threading).
main ==
    /\ Running /\ runner = "startup"
    /\ IF ConfigValid
       THEN runner' = "main" /\ UNCHANGED exit_code
       ELSE /\ runner' = "exited"
            /\ exit_code' = IF variant = "unified" THEN 1 ELSE 0
    /\ UNCHANGED <<pc, app, cancel_requested>>
    /\ runnerFrame

\* application.initialize(); application.start()
RunnerStart ==
    /\ Running /\ variant = "unified" /\ runner = "main"
    /\ app' = [app EXCEPT !.running = TRUE]
    /\ runner' = "create_tasks"
    /\ UNCHANGED <<pc, cancel_requested, exit_code>>
    /\ runnerFrame

\* poll_task = create_task(post_poll(...)); polling_task =
\* create_task(updater.start_polling()); then the runner awaits the event.
RunnerCreateTasks ==
    /\ Running /\ runner = "create_tasks"
    /\ pc' = "created"
    /\ app' = [app EXCEPT !.polling_task = "created"]
    /\ runner' = "wait_event"
    /\ UNCHANGED <<cancel_requested, exit_code>>
    /\ runnerFrame

\* polling_task runs updater.start_polling(): the updater polls.
StartPolling ==
    /\ Running /\ app.polling_task = "created"
    /\ pc \in SuspendedAt
    /\ app' = [app EXCEPT !.polling_task = "done", !.updater_running = TRUE]
    /\ UNCHANGED <<pc, runner, cancel_requested, exit_code>>
    /\ runnerFrame

\* shutdown_event.wait() returns: poll_task.cancel(); polling_task.cancel()
RunnerCancelTasks ==
    /\ Running /\ runner = "wait_event"
    /\ shutdown_event
    /\ cancel_requested' = TRUE
    /\ app' = [app EXCEPT !.polling_task =
                   IF @ = "created" THEN "cancelled" ELSE @]
    /\ runner' = "gather"
    /\ UNCHANGED <<pc, exit_code>>
    /\ runnerFrame

\* asyncio.gather(poll_task, polling_task, return_exceptions=True) returns
\* when both tasks are finished.
RunnerGather ==
    /\ Running /\ runner = "gather"
    /\ pc = "cancelled"
    /\ app.polling_task \in {"done", "cancelled"}
    /\ runner' = "fin_updater"
    /\ UNCHANGED <<pc, app, cancel_requested, exit_code>>
    /\ runnerFrame

\* RunnerStopUpdater with the updater left running: the finally block goes
\* straight to application.stop().
RunnerStopUpdater_skipped ==
    /\ Running /\ runner = "fin_updater"
    /\ runner' = "fin_app"
    /\ UNCHANGED <<pc, app, cancel_requested, exit_code>>
    /\ runnerFrame

\* finally: if application.updater.running: await application.updater.stop()
RunnerStopUpdater ==
    /\ Running /\ runner = "fin_updater"
    /\ app' = IF app.updater_running
              THEN [app EXCEPT !.updater_running = FALSE,
                               !.updater_stops = @ + 1]
              ELSE app
    /\ runner' = "fin_app"
    /\ UNCHANGED <<pc, cancel_requested, exit_code>>
    /\ runnerFrame

\* if application.running: await application.stop()
RunnerStopApp ==
    /\ Running /\ runner = "fin_app"
    /\ app' = IF app.running
              THEN [app EXCEPT !.running = FALSE, !.app_stops = @ + 1]
              ELSE app
    /\ runner' = "fin_shutdown"
    /\ UNCHANGED <<pc, cancel_requested, exit_code>>
    /\ runnerFrame

\* await application.shutdown()
RunnerShutdownApp ==
    /\ Running /\ runner = "fin_shutdown"
    /\ app' = [app EXCEPT !.app_shutdowns = @ + 1]
    /\ runner' = "return"
    /\ UNCHANGED <<pc, cancel_requested, exit_code>>
    /\ runnerFrame

\* run_bot_async returns, asyncio.run returns, main ends: the process exits.
RunnerExit ==
    /\ Running /\ runner = "return"
    /\ runner' = "exited"
    /\ exit_code' = 0
    /\ UNCHANGED <<pc, app, cancel_requested>>
    /\ runnerFrame

(* ------------------------------------------------------- main (threading) *)
\* threading.Thread(target=run_in_new_loop, args=(post_poll(...),)).start()
ThreadingStartThread ==
    /\ Running /\ variant = "threading" /\ runner = "main"
    /\ pc' = "created"
    /\ runner' = "run_polling"
    /\ UNCHANGED <<app, cancel_requested, exit_code>>
    /\ runnerFrame

\* application.run_polling(allowed_updates=Update.ALL_TYPES)
ThreadingRunPolling ==
    /\ Running /\ runner = "run_polling"
    /\ app' = [app EXCEPT !.running = TRUE, !.updater_running = TRUE]
    /\ runner' = "polling"
    /\ UNCHANGED <<pc, cancel_requested, exit_code>>
    /\ runnerFrame

(* -------------------------------------------------- receive_poll_answer *)
\* poll_answer.user.username: voter 1 has one, the others have none.
UsernameOf(user_id) == IF user_id = 1 THEN "user1" ELSE NoneStr

\* The poll of this run exists at the chat service once send_poll was sent.
PollExists == pc \notin {"not_started", "created"}

\* unified: one event loop, so another callback runs only while the lifecycle
\* task is suspended at an await.  threading: the lifecycle has its own thread.
LoopFree == variant = "threading" \/ pc \in SuspendedAt

\* DuplicateKey with the poll id alone as the key.
DuplicateKey_poll_only(collection, doc) ==
    \E d \in collection : d.poll_id = doc.poll_id

\* pymongo: insert_one raises DuplicateKeyError when a document with the same
\* _id is in the collection, and the collection is left as it was.
DuplicateKey(collection, doc) == \E d \in collection : d._id = doc._id

insert_one(collection, doc) == collection \cup {doc}

\* vote_entry of receive_poll_answer built at time `now`; _id is
\* f"{user_id}-{poll_id}", vote_timestamp is datetime.now(UTC).isoformat().
VoteEntryAt(now, user_id, poll_id, selected_option) ==
    [_id |-> <<user_id, poll_id>>,
     user_id |-> user_id,
     selected_option |-> selected_option,
     poll_id |-> poll_id,
     poll_creation_date |-> poll_payload.poll_creation_date,
     vote_timestamp |-> now,
     username |-> IF UsernameOf(user_id) # NoneStr
                  THEN UsernameOf(user_id) ELSE "Unknown"]

\* The vote entry of a run, whose clock is not modelled: every handled
\* answer reads VoteTime.
VoteEntry(user_id, poll_id, selected_option) ==
    VoteEntryAt(VoteTime, user_id, poll_id, selected_option)

\* IndexInRange off by one: the index Len(POLL_OPTIONS) passes.
IndexInRange_inclusive(option_ids) ==
    /\ option_ids # <<>>
    /\ option_ids[1] <= Len(POLL_OPTIONS)

\* POLL_OPTIONS[selected_option] of the log line: IndexError past the end
\* (option_ids[0] raises it too when option_ids is empty).
IndexInRange(option_ids) ==
    /\ option_ids # <<>>
    /\ option_ids[1] < Len(POLL_OPTIONS)

\* What the handler does with one poll answer, at time `now` and on the
\* collection `votes`: the collection afterwards and the branch taken.  Every
\* exception is caught and logged.
HandleAnswerOn(votes, now, user_id, poll_id, option_ids, store_ok) ==
    IF ~IndexInRange(option_ids)
    THEN [votes |-> votes, outcome |-> "index_error"]
    ELSE IF ~db_available
    THEN [votes |-> votes, outcome |-> "no_db"]
    ELSE LET vote_entry == VoteEntryAt(now, user_id, poll_id, option_ids[1])
         IN  IF ~store_ok
             THEN [votes |-> votes, outcome |-> "store_error"]
             ELSE IF DuplicateKey(votes, vote_entry)
             THEN [votes |-> votes, outcome |-> "duplicate_key"]
             ELSE [votes |-> insert_one(votes, vote_entry),
                   outcome |-> "saved"]

HandleAnswer(user_id, poll_id, option_ids, store_ok) ==
    HandleAnswerOn(db_votes, VoteTime, user_id, poll_id, option_ids, store_ok)

\* receive_poll_answer keeping a running total in the poll record.
receive_poll_answer_counting(user_id, poll_id, option_ids, store_ok) ==
    /\ Listening /\ LoopFree /\ PollExists
    /\ LET r == HandleAnswer(user_id, poll_id, option_ids, store_ok)
       IN  /\ db_votes' = r.votes
           /\ last_answer' = [user_id |-> user_id, poll_id |-> poll_id,
                              option_ids |-> option_ids, outcome |-> r.outcome]
           /\ poll_payload' = IF r.outcome = "saved"
                              THEN [poll_payload EXCEPT !.total_votes = 1]
                              ELSE poll_payload
    /\ UNCHANGED <<configVars, runnerVars, pc, reminder_message,
                   winning_option, todo, shutdown_event, next_message_id,
                   effects, db_polls, exit_code>>

\* receive_poll_answer without its try/except: an IndexError or a store
\* error leaves the handler and brings the process down.
receive_poll_answer_unguarded(user_id, poll_id, option_ids, store_ok) ==
    /\ Listening /\ LoopFree /\ PollExists
    /\ LET r == HandleAnswer(user_id, poll_id, option_ids, store_ok)
       IN  /\ db_votes' = r.votes
           /\ last_answer' = [user_id |-> user_id, poll_id |-> poll_id,
                              option_ids |-> option_ids, outcome |-> r.outcome]
           /\ exit_code' = IF r.outcome \in {"index_error", "store_error",
                                             "duplicate_key"}
                           THEN 1 ELSE exit_code
    /\ UNCHANGED <<configVars, runnerVars, pc, poll_payload, reminder_message,
                   winning_option, todo, shutdown_event, next_message_id,
                   effects, db_polls>>

receive_poll_answer(user_id, poll_id, option_ids, store_ok) ==
    /\ Listening /\ LoopFree /\ PollExists
    /\ LET r == HandleAnswer(user_id, poll_id, option_ids, store_ok)
       IN  /\ db_votes' = r.votes
           /\ last_answer' = [user_id |-> user_id, poll_id |-> poll_id,
                              option_ids |-> option_ids, outcome |-> r.outcome]
    /\ UNCHANGED <<configVars, runnerVars, pc, poll_payload, reminder_message,
                   winning_option, todo, shutdown_event, next_message_id,
                   effects, db_polls, exit_code>>

ReceivePollAnswer ==
    \E user_id \in Voters, poll_id \in PollIds, option_ids \in OptionIds,
       store_ok \in BOOLEAN :
        receive_poll_answer(user_id, poll_id, option_ids, store_ok)

(* ------------------------------------------------------------------ Next *)
PostPoll == PostPollStart \/ SendPollReturn \/ SendImageReturn

RunPollLifecycle ==
    \/ Sleep1Return \/ SendReminderReturn \/ Sleep2Return
    \/ StopPollOk \/ StopPollRaise \/ SendConclusionReturn

CleanupAndSave == DeleteMessageReturn \/ DeleteReminderReturn

Lifecycle == PostPoll \/ RunPollLifecycle \/ CleanupAndSave \/ CancelDelivered

Runner ==
    \/ main
    \/ RunnerStart \/ RunnerCreateTasks \/ StartPolling \/ RunnerCancelTasks
    \/ RunnerGather \/ RunnerStopUpdater \/ RunnerStopApp \/ RunnerShutdownApp
    \/ RunnerExit
    \/ ThreadingStartThread \/ ThreadingRunPolling

Next == Lifecycle \/ Runner \/ ReceivePollAnswer

Spec == Init /\ [][Next]_vars

\* Every run: the task is scheduled and every awaited call returns or raises;
\* the runner is scheduled.  Poll answers may or may not arrive.
FairSpec == Spec /\ WF_vars(Lifecycle) /\ WF_vars(Runner)

\* The awaited calls of the finally block of run_bot_async, into the
\* telegram library and through it the network: each returns when the other
\* side answers.  The code puts no timeout around them.
TeardownCalls == RunnerStopUpdater \/ RunnerStopApp \/ RunnerShutdownApp

\* The steps of main and run_bot_async other than the calls of the teardown.
RunnerOwnSteps ==
    \/ main
    \/ RunnerStart \/ RunnerCreateTasks \/ StartPolling \/ RunnerCancelTasks
    \/ RunnerGather \/ RunnerExit
    \/ ThreadingStartThread \/ ThreadingRunPolling

\* Every run in which the lifecycle's calls return and the runner is
\* scheduled, while a call of the teardown may stay unanswered for ever.
UnresponsiveSpec == Spec /\ WF_vars(Lifecycle) /\ WF_vars(RunnerOwnSteps)

(* ------------------------------------- _cleanup_and_save as an operation *)
\* ApiSpec exercises BotManager directly: a manager whose poll message is
\* known, add_message_id called with any ids (it appends what it is given),
\* then _cleanup_and_save with or without a reminder message.
TrackIds == 1 .. MaxTracked

ApiInit ==
    /\ variant \in Variants
    /\ db_available \in BOOLEAN
    /\ image_path = FALSE
    /\ TG_BOT_API_TOKEN = TRUE
    /\ TG_CHAT_ID = 1
    /\ POLL_DURATION_IN_MINS = DefaultPollDuration
    /\ REMINDER_MINS = DefaultReminder
    /\ pc = "api"
    /\ \E m \in TrackIds :
        poll_payload = [InitialPayload EXCEPT !._id = "p1",
                                              !.poll_message_id = m,
                                              !.poll_creation_date = Today]
    /\ reminder_message \in {None, MaxTracked + 1}
    /\ winning_option = <<>>
    /\ todo = <<>>
    /\ shutdown_event = FALSE
    /\ next_message_id = MaxTracked + 2
    /\ effects = <<>>
    /\ db_polls = <<>>
    /\ db_votes = {}
    /\ last_answer = NoAnswer
    /\ runner = "api"
    /\ cancel_requested = FALSE
    /\ app = InitialApp
    /\ mongo_closed = FALSE
    /\ exit_code = -1

\* bot_manager.add_message_id(message_id)
ApiAddMessageId ==
    /\ pc = "api"
    /\ Len(poll_payload.message_ids) < MaxTracked
    /\ \E m \in TrackIds : poll_payload' = add_message_id(poll_payload, m)
    /\ UNCHANGED <<pc, reminder_message, winning_option, todo, shutdown_event,
                   next_message_id, effects, db_polls, exit_code>>
    /\ lifecycleFrame

\* await bot_manager._cleanup_and_save(bot, chat_id, reminder_message)
ApiCleanupAndSave ==
    /\ pc = "api"
    /\ \E ids \in IterationOrders(poll_payload) :
        CleanupLoop(<<>>, poll_payload, ids, reminder_message)
    /\ UNCHANGED <<reminder_message, winning_option, next_message_id>>
    /\ lifecycleFrame

ApiNext == ApiAddMessageId \/ ApiCleanupAndSave \/ CleanupAndSave

ApiSpec == ApiInit /\ [][ApiNext]_vars

(* --------------------------------- _process_poll_results as an operation *)
\* TallySpec calls _process_poll_results on the closed polls the chat service
\* can return: two or more options, each with its text and voter_count.
TallyTexts == <<"Option A", "Option B", "Option C", "Option D">>

ClosedPolls ==
    UNION {{ClosedPoll(SubSeq(TallyTexts, 1, n), counts) :
                counts \in [1 .. n -> 0 .. MaxTally]} : n \in 2 .. MaxOptions}

\* winning_option = self._process_poll_results(closed_poll, total_votes)
ApiProcessPollResults ==
    /\ pc = "api"
    /\ \E closed_poll \in ClosedPolls :
        LET total_votes == closed_poll.total_voter_count
            res == _process_poll_results(closed_poll, total_votes)
        IN  /\ poll_payload' = [poll_payload EXCEPT
                                    !.option_votes = res.option_votes]
            /\ winning_option' = res.winning_option
            /\ effects' = effects \o <<Effect("tally", "call", closed_poll),
                                       Effect("tally", "done", res.winning_option)>>
    /\ pc' = "api_tallied"
    /\ UNCHANGED <<reminder_message, todo, shutdown_event, next_message_id,
                   db_polls, exit_code>>
    /\ lifecycleFrame

TallyNext == ApiProcessPollResults

TallySpec == ApiInit /\ [][TallyNext]_vars

(* ------------------------------------------ the recorder with more voters *)
\* RecorderSpec: the run is in its first wait, the poll posted and the
\* listener running; poll answers arrive from one voter more than in Spec.
RecorderVoters == 1 .. NumVoters + 1

RecorderInit ==
    /\ variant \in Variants
    /\ db_available \in BOOLEAN
    /\ image_path = FALSE
    /\ TG_BOT_API_TOKEN = TRUE
    /\ TG_CHAT_ID = 1
    /\ POLL_DURATION_IN_MINS = DefaultPollDuration
    /\ REMINDER_MINS = DefaultReminder
    /\ pc = "in_sleep1"
    /\ poll_payload = update_poll_data(InitialPayload, 1)
    /\ reminder_message = None
    /\ winning_option = <<>>
    /\ todo = <<>>
    /\ shutdown_event = FALSE
    /\ next_message_id = 2
    /\ effects = <<Effect("send_poll", "call", None),
                   Effect("send_poll", "ret", 1),
                   Effect("sleep1", "call",
                          (DefaultPollDuration - DefaultReminder) * 60)>>
    /\ db_polls = <<>>
    /\ db_votes = {}
    /\ last_answer = NoAnswer
    /\ runner = IF variant = "unified" THEN "wait_event" ELSE "polling"
    /\ cancel_requested = FALSE
    /\ app = [InitialApp EXCEPT
                !.running = TRUE, !.updater_running = TRUE,
                !.polling_task = IF variant = "unified" THEN "done" ELSE "none"]
    /\ mongo_closed = FALSE
    /\ exit_code = -1

RecorderAnswer ==
    \E user_id \in RecorderVoters, poll_id \in PollIds, option_ids \in OptionIds,
       store_ok \in BOOLEAN :
        receive_poll_answer(user_id, poll_id, option_ids, store_ok)

RecorderNext == RecorderAnswer

RecorderSpec == RecorderInit /\ [][RecorderNext]_vars

(* ------------------------------------------------ main over configurations *)
\* MainSpec starts the scripts under every configuration of the credential,
\* the chat id and the two durations (in minutes): small durations on both
\* sides of POLL_DURATION_IN_MINS > REMINDER_MINS, and the defaults.
ConfigDurations ==
    {<<d, r>> : d \in 0 .. MaxMins, r \in 0 .. MaxMins}
        \cup {<<DefaultPollDuration, DefaultReminder>>}

MainInit ==
    /\ ProcessInit
    /\ TG_BOT_API_TOKEN \in BOOLEAN
    /\ TG_CHAT_ID \in {0, 1}
    /\ \E c \in ConfigDurations :
        /\ POLL_DURATION_IN_MINS = c[1]
        /\ REMINDER_MINS = c[2]

MainNext == Lifecycle \/ Runner

MainSpec == MainInit /\ [][MainNext]_vars

(* ============================================================ properties *)
Indices == 1 .. Len(effects)

\* The lifecycle has issued (call), got back (ret) or seen fail (raise) `op`.
HasEffect(op, ev) == \E i \in Indices : effects[i].op = op /\ effects[i].ev = ev

\* Number of delete_message calls issued for message id `m`.
Deletions(m) ==
    Cardinality({i \in Indices : /\ effects[i].op = "delete_message"
                                 /\ effects[i].ev = "call"
                                 /\ effects[i].arg = m})

\* The lifecycle task has ended or waits in _shutdown.
LifecycleEnded == pc \in {"sd_sleep", "cancelled", "exited"}

\* The place of each effect in the order of the lifecycle.
Rank(op) ==
    CASE op = "send_poll" -> 1
      [] op = "send_image" -> 2
      [] op = "sleep1" -> 3
      [] op = "send_reminder" -> 4
      [] op = "sleep2" -> 5
      [] op = "stop_poll" -> 6
      [] op = "tally" -> 7
      [] op = "send_conclusion" -> 8
      [] op = "delete_message" -> 9
      [] op = "insert_poll" -> 10
      [] op = "shutdown" -> 11

\* The effect that must have returned before `op` is issued.
Predecessor(op) ==
    CASE op = "send_image" -> "send_poll"
      [] op = "sleep1" -> "send_poll"
      [] op = "send_reminder" -> "sleep1"
      [] op = "sleep2" -> "send_reminder"
      [] op = "stop_poll" -> "sleep2"
      [] op = "tally" -> "stop_poll"
      [] op = "send_conclusion" -> "stop_poll"
      [] op = "delete_message" -> "send_conclusion"
      [] op = "insert_poll" -> "send_conclusion"
      [] OTHER -> "none"

\* C1: the effects of a lifecycle run are issued in the order poll creation,
\* image send, first wait, reminder send, second wait, poll close, tally,
\* result announcement, deletions, poll-record insert, shutdown signal; an
\* effect is issued only after its predecessor returned, a call is followed
\* by its own return before anything else is issued, and nothing follows the
\* shutdown signal.
C1_EffectsInOrder ==
    /\ \A i, j \in Indices : i < j => Rank(effects[i].op) <= Rank(effects[j].op)
    /\ \A i \in Indices :
        effects[i].ev = "call" /\ i < Len(effects) =>
            /\ effects[i + 1].op = effects[i].op
            /\ effects[i + 1].ev \in {"ret", "raise"}
    /\ \A i \in Indices :
        effects[i].ev \in {"ret", "raise"} =>
            /\ i > 1
            /\ effects[i - 1].op = effects[i].op
            /\ effects[i - 1].ev = "call"
    /\ \A i \in Indices :
        effects[i].ev \in {"call", "done"} /\ Predecessor(effects[i].op) # "none" =>
            \E j \in 1 .. i - 1 : /\ effects[j].op = Predecessor(effects[i].op)
                                  /\ effects[j].ev = "ret"
    /\ \A i \in Indices : effects[i].op = "shutdown" => i = Len(effects)

\* A complete run with an image: every effect of the list has been issued.
C1_Witness ==
    /\ HasEffect("send_image", "ret")
    /\ HasEffect("send_reminder", "ret")
    /\ HasEffect("tally", "done")
    /\ HasEffect("delete_message", "ret")
    /\ HasEffect("insert_poll", "ret")
    /\ HasEffect("shutdown", "set")

\* C2: the polls collection gets at most one insert per run; the record
\* inserted is CLOSED; the insert comes after every deletion of the cleanup
\* (each tracked id but the poll's, and the reminder); and a run in which no
\* call failed, with the store available, has inserted exactly one record.
C2_SingleInsert ==
    /\ Len(db_polls) <= 1
    /\ Cardinality({i \in Indices : effects[i].op = "insert_poll"
                                    /\ effects[i].ev = "call"}) <= 1
    /\ \A k \in 1 .. Len(db_polls) : db_polls[k].status = PollStatus.CLOSED
    /\ \A i, j \in Indices :
        effects[i].op = "insert_poll" /\ effects[j].op = "delete_message" => j < i
    /\ HasEffect("insert_poll", "call") =>
        /\ \A m \in Range(poll_payload.message_ids) :
            m # poll_payload.poll_message_id => Deletions(m) >= 1
        /\ reminder_message # None /\ Deletions(reminder_message) >= 1
    /\ (LifecycleEnded /\ db_available /\ \A i \in Indices : effects[i].ev # "raise")
        => Len(db_polls) = 1

\* A run that deleted the image and the reminder and then inserted the record.
C2_Witness ==
    /\ Len(db_polls) = 1
    /\ Cardinality({i \in Indices : effects[i].op = "delete_message"
                                    /\ effects[i].ev = "ret"}) = 2
    /\ LifecycleEnded

\* C3: the status of the poll record starts ACTIVE and only ever changes from
\* ACTIVE to CLOSED or to CANCELLED.
C3_StatusMonotonic ==
    /\ poll_payload.status = PollStatus.ACTIVE
    /\ [][poll_payload'.status # poll_payload.status =>
            /\ poll_payload.status = PollStatus.ACTIVE
            /\ poll_payload'.status \in {PollStatus.CLOSED, PollStatus.CANCELLED}]_vars

\* The poll was closed and the run went on to its end.
C3_Witness ==
    /\ poll_payload.status = PollStatus.CLOSED
    /\ HasEffect("insert_poll", "ret")
    /\ LifecycleEnded

\* The documents of the votes collection stored under the key of the answer
\* handled last.
LastAnswerDocs ==
    {d \in db_votes : d._id = <<last_answer.user_id, last_answer.poll_id>>}

\* C4 (as claimed): after a valid poll answer has been handed to the store,
\* also as the second answer for its (voter, poll), the votes collection
\* holds exactly one record for that key, with the option of this answer.
C4_UpsertLatest ==
    last_answer.outcome \in {"saved", "duplicate_key"} =>
        /\ Cardinality(LastAnswerDocs) = 1
        /\ \A d \in LastAnswerDocs : d.selected_option = last_answer.option_ids[1]

\* C5: a poll answer whose option index is Len(POLL_OPTIONS) or more leaves
\* the votes collection as it was, and no record with such an index is ever
\* in the collection.
C5_OutOfRangeDropped ==
    /\ [][\A user_id \in Voters, poll_id \in PollIds, option_ids \in OptionIds,
            store_ok \in BOOLEAN :
            (/\ option_ids # <<>>
             /\ option_ids[1] >= Len(POLL_OPTIONS)
             /\ receive_poll_answer(user_id, poll_id, option_ids, store_ok))
            => db_votes' = db_votes]_vars
    /\ [](\A d \in db_votes : d.selected_option < Len(POLL_OPTIONS))

\* An answer with index Len(POLL_OPTIONS) was handled, with a store that
\* holds a vote already.
C5_Witness ==
    /\ last_answer.option_ids = <<Len(POLL_OPTIONS)>>
    /\ last_answer.outcome = "index_error"
    /\ db_votes # {}

\* C6 (as claimed): once _cleanup_and_save is through, each distinct tracked
\* id other than the poll message's has had exactly one delete_message, and
\* the poll message's has had none.
C6_DeleteOncePerId ==
    pc \notin {"api", "in_delete", "in_delete_reminder"} =>
        /\ \A m \in Range(poll_payload.message_ids) \ {poll_payload.poll_message_id} :
            Deletions(m) = 1
        /\ Deletions(poll_payload.poll_message_id) = 0

\* C7 (as claimed): a failed reminder send does not abort the lifecycle: the
\* next thing the lifecycle does is the second wait.
C7_ReminderFailureGoesOn ==
    \A i \in Indices :
        effects[i].op = "send_reminder" /\ effects[i].ev = "raise" =>
            /\ i < Len(effects)
            /\ effects[i + 1].op = "sleep2"

\* C8: when the poll creation fails nothing else of the lifecycle is issued
\* and the payload stays as constructed; when the poll close fails there is no
\* tally, no result announcement, no deletion and no insert, and the record
\* is not CLOSED; in both cases shutdown is triggered (the event is set, or
\* the threading script's process exits).
C8_CriticalFailureAborts ==
    /\ HasEffect("send_poll", "raise") =>
        /\ \A i \in Indices : effects[i].op \in {"send_poll", "shutdown"}
        /\ poll_payload = InitialPayload
    /\ HasEffect("stop_poll", "raise") =>
        /\ \A i \in Indices :
            effects[i].op \notin {"tally", "send_conclusion", "delete_message",
                                  "insert_poll"}
        /\ poll_payload.status = PollStatus.ACTIVE
        /\ poll_payload.option_votes = <<>>
    /\ (HasEffect("send_poll", "raise") \/ HasEffect("stop_poll", "raise")) =>
        /\ db_polls = <<>>
        /\ IF variant = "unified" THEN shutdown_event ELSE exit_code = 1

\* The poll close failed after the reminder went out.
C8_Witness ==
    /\ HasEffect("stop_poll", "raise")
    /\ HasEffect("send_reminder", "ret")
    /\ LifecycleEnded

\* C9 (as claimed): when the result announcement fails after the poll was
\* closed, the cleanup deletions and the poll-record insert still take place.
C9_ConclusionFailureGoesOn ==
    (HasEffect("send_conclusion", "raise") /\ LifecycleEnded) =>
        /\ reminder_message # None => Deletions(reminder_message) = 1
        /\ db_available => HasEffect("insert_poll", "call")

\* C10: in the unified script, once the lifecycle task exists the shutdown
\* event is eventually set, whichever calls fail; and once set it stays set.
C10_ShutdownSignalled ==
    /\ (variant = "unified" /\ pc = "created") ~> shutdown_event
    /\ [][shutdown_event => shutdown_event']_vars

\* The event is set on an error path: the reminder could not be sent.
C10_Witness ==
    /\ variant = "unified"
    /\ shutdown_event
    /\ HasEffect("send_reminder", "raise")

\* C11 (as claimed): when the unified script's process has exited after the
\* shutdown signal, the bot session (application.shutdown) and the database
\* connection (mongo_client.close) have both been released.
C11_SessionAndStoreReleased ==
    (/\ variant = "unified"
     /\ shutdown_event
     /\ runner = "exited"
     /\ db_available)
    => /\ app.app_shutdowns >= 1
       /\ mongo_closed

\* C12 (as claimed): once the shutdown signal is set the process exits, also
\* when a call of the teardown (updater stop, application stop, application
\* shutdown) never returns.
C12_ExitWithinGracePeriod == shutdown_event ~> exit_code # -1

\* The runner is past `await application.updater.stop()` of its finally block.
ListenerStopped ==
    /\ shutdown_event
    /\ runner \in {"fin_app", "fin_shutdown", "return", "exited"}

NeverStarted ==
    /\ pc = "not_started"
    /\ effects = <<>>
    /\ app = InitialApp
    /\ db_polls = <<>> /\ db_votes = {}
    /\ runner \in {"startup", "exited"}

\* C14 (as claimed): in both scripts, with REMINDER_MINS >= POLL_DURATION_IN_MINS
\* no lifecycle stage is ever entered.
C14_InvalidDurationsRejected ==
    REMINDER_MINS >= POLL_DURATION_IN_MINS => NeverStarted

\* C15: in both scripts, with the bot credential missing or the chat id
\* missing (zero) no lifecycle stage is ever entered, and main ends the
\* process at its checks.
C15_MissingSettingFatal ==
    (~TG_BOT_API_TOKEN \/ TG_CHAT_ID = 0) =>
        /\ NeverStarted
        /\ runner = "exited" => exit_code = IF variant = "unified" THEN 1 ELSE 0

\* main has ended the process on a missing chat id, the credential being set.
C15_Witness ==
    /\ TG_BOT_API_TOKEN /\ TG_CHAT_ID = 0
    /\ POLL_DURATION_IN_MINS > REMINDER_MINS
    /\ runner = "exited"

\* Seconds of asyncio.sleep completed among the first i entries of the log:
\* a sleep that returned lasted the delay it was called with.
RECURSIVE WaitedUpTo(_)
WaitedUpTo(i) ==
    IF i < 2 THEN 0
    ELSE WaitedUpTo(i - 1)
         + (IF effects[i].op \in {"sleep1", "sleep2"} /\ effects[i].ev = "ret"
            THEN effects[i - 1].arg ELSE 0)

\* C16: with POLL_DURATION_IN_MINS = D > REMINDER_MINS = R >= 0, the wait starts
\* when the creation stage has ended, the reminder is sent when exactly D - R
\* minutes have been waited, and the poll-close request is issued when
\* exactly R more minutes, D in all, have been waited.
C16_WaitsMatchConfiguration ==
    (POLL_DURATION_IN_MINS > REMINDER_MINS /\ REMINDER_MINS >= 0) =>
        \A i \in Indices :
            /\ (effects[i].op = "sleep1" /\ effects[i].ev = "call") =>
                /\ i > 1
                /\ effects[i - 1].op \in {"send_poll", "send_image"}
                /\ WaitedUpTo(i) = 0
            /\ (effects[i].op = "send_reminder" /\ effects[i].ev = "call") =>
                WaitedUpTo(i) = (POLL_DURATION_IN_MINS - REMINDER_MINS) * 60
            /\ (effects[i].op = "stop_poll" /\ effects[i].ev = "call") =>
                /\ WaitedUpTo(i) = POLL_DURATION_IN_MINS * 60
                /\ \E j \in 1 .. i :
                    /\ effects[j].op = "send_reminder" /\ effects[j].ev = "call"
                    /\ WaitedUpTo(i) - WaitedUpTo(j) = REMINDER_MINS * 60

\* The default configuration, 60 and 15 minutes: 45 minutes were waited
\* before the reminder and the poll-close request has been issued.
C16_Witness ==
    /\ POLL_DURATION_IN_MINS = 60 /\ REMINDER_MINS = 15
    /\ \E i \in Indices :
        /\ effects[i].op = "send_reminder" /\ effects[i].ev = "call"
        /\ WaitedUpTo(i) = 45 * 60
    /\ HasEffect("stop_poll", "call")

\* The log entries at which _process_poll_results returned; the entry before
\* carries the closed poll it was given.
TallyCases == {i \in Indices : effects[i].op = "tally" /\ effects[i].ev = "done"}
TallyInput(i) == effects[i - 1].arg
TallyOutcome(i) == effects[i].arg

\* The options of a closed poll that attain its greatest voter_count.
Leaders(closed_poll) ==
    {k \in 1 .. Len(closed_poll.options) :
        \A j \in 1 .. Len(closed_poll.options) :
            closed_poll.options[j].voter_count <= closed_poll.options[k].voter_count}

\* C17: for a closed poll with votes in which exactly one option attains the
\* greatest voter_count, _process_poll_results returns the text of that
\* option and nothing else.
C17_UniqueWinner ==
    \A i \in TallyCases :
        LET closed_poll == TallyInput(i)
        IN  (/\ closed_poll.total_voter_count > 0
             /\ Cardinality(Leaders(closed_poll)) = 1)
            => \E k \in Leaders(closed_poll) :
                TallyOutcome(i) = <<closed_poll.options[k].text>>

\* Three options, one of them ahead of another that also got votes.
C17_Witness ==
    \E i \in TallyCases :
        LET closed_poll == TallyInput(i)
        IN  /\ Len(closed_poll.options) = 3
            /\ Cardinality(Leaders(closed_poll)) = 1
            /\ Cardinality({k \in 1 .. 3 : closed_poll.options[k].voter_count > 0}) >= 2
            /\ Len(TallyOutcome(i)) = 1

\* C18: for a closed poll with votes in which two or more options share the
\* greatest voter_count, _process_poll_results returns "Tie between: "
\* followed by the texts of exactly those options, in the order of the
\* poll's options, separated by ", ".
C18_TieNamesLeaders ==
    \A i \in TallyCases :
        LET closed_poll == TallyInput(i)
            leaders == Leaders(closed_poll)
            n == Cardinality(leaders)
            outcome == TallyOutcome(i)
        IN  (closed_poll.total_voter_count > 0 /\ n >= 2) =>
                /\ Len(outcome) = 2 * n
                /\ outcome[1] = "Tie between: "
                /\ \A k \in leaders :
                    outcome[2 * (Cardinality({j \in leaders : j < k}) + 1)]
                        = closed_poll.options[k].text
                /\ \A p \in 2 .. n : outcome[2 * p - 1] = ", "

\* Three options, two of them tied ahead of the third, which got a vote.
C18_Witness ==
    \E i \in TallyCases :
        LET closed_poll == TallyInput(i)
        IN  /\ Len(closed_poll.options) = 3
            /\ Cardinality(Leaders(closed_poll)) = 2
            /\ \A k \in 1 .. 3 : closed_poll.options[k].voter_count > 0
            /\ TallyOutcome(i)[1] = "Tie between: "

\* C19: for a closed poll with total_voter_count 0 no percentage is computed
\* (no division by the total), the option_votes stored in the record are
\* empty and the outcome is "No votes received"; no stored percentage ever
\* has the divisor 0.
C19_NoVotesSentinel ==
    /\ \A i \in TallyCases :
        TallyInput(i).total_voter_count = 0 =>
            /\ TallyOutcome(i) = <<"No votes received">>
            /\ winning_option = <<"No votes received">>
            /\ poll_payload.option_votes = <<>>
    /\ \A k \in 1 .. Len(poll_payload.option_votes) :
        poll_payload.option_votes[k].percentage[2] > 0

\* _process_poll_results has returned for a closed poll without votes.
C19_Witness ==
    \E i \in TallyCases :
        /\ TallyInput(i).total_voter_count = 0
        /\ Len(TallyInput(i).options) = 3
        /\ poll_payload.option_votes = <<>>

\* _cleanup_and_save is through its deletions: it has returned, or raised at
\* the insert.
CleanupThrough == pc \in {"sd_sleep", "cancelled", "exited"}

\* C20: a failed delete_message stops nothing of the cleanup: the entry after
\* the failure is the next deletion, the insert or the end of the cleanup,
\* and once the cleanup is through every tracked id other than the poll
\* message's and the reminder, if there is one, have had their deletion
\* attempted and, with the store available, the insert was attempted.
C20_DeleteFailuresIndependent ==
    /\ \A i \in Indices :
        (effects[i].op = "delete_message" /\ effects[i].ev = "raise") =>
            /\ i < Len(effects)
            /\ effects[i + 1].op \in {"delete_message", "insert_poll", "shutdown"}
            /\ effects[i + 1].ev \in {"call", "set", "exit"}
    /\ (CleanupThrough /\ HasEffect("delete_message", "raise")) =>
        /\ \A m \in Range(poll_payload.message_ids) \ {poll_payload.poll_message_id} :
            Deletions(m) >= 1
        /\ reminder_message # None => Deletions(reminder_message) >= 1
        /\ db_available => HasEffect("insert_poll", "call")

\* The first of several deletions failed; two more ids and the reminder were
\* attempted afterwards and the record was inserted.
C20_Witness ==
    /\ CleanupThrough
    /\ \E i \in Indices :
        /\ effects[i].op = "delete_message" /\ effects[i].ev = "raise"
        /\ i = 2
        /\ Cardinality({j \in Indices : /\ j > i
                                        /\ effects[j].op = "delete_message"
                                        /\ effects[j].ev = "call"}) >= 2
    /\ reminder_message # None /\ Deletions(reminder_message) = 1
    /\ Len(db_polls) = 1

\* C21: a failed image send does not abort the lifecycle: the entry after the
\* failure is the first wait, and no message id is tracked for the image
\* (the only tracked id is the poll message's).
C21_ImageFailureSwallowed ==
    \A i \in Indices :
        (effects[i].op = "send_image" /\ effects[i].ev = "raise") =>
            /\ i < Len(effects)
            /\ effects[i + 1].op = "sleep1" /\ effects[i + 1].ev = "call"
            /\ poll_payload.message_ids = <<poll_payload.poll_message_id>>
            /\ exit_code # 1 \/ \E j \in Indices : j > i /\ effects[j].ev = "raise"

\* The image send failed and the run went on through every later stage.
C21_Witness ==
    /\ HasEffect("send_image", "raise")
    /\ HasEffect("send_reminder", "ret")
    /\ HasEffect("send_conclusion", "ret")
    /\ Deletions(reminder_message) = 1
    /\ Len(db_polls) = 1
    /\ LifecycleEnded

\* The lifecycle states in which a call or a wait of the lifecycle is pending.
PendingCalls ==
    {"in_send_poll", "in_send_image", "in_sleep1", "in_send_reminder",
     "in_sleep2", "in_stop_poll", "in_send_conclusion", "in_delete",
     "in_delete_reminder"}

LastAnswerFailed == last_answer.outcome \in {"index_error", "store_error"}

\* C23: after a poll answer that was dropped as malformed or whose store
\* write failed, the handler can still be called for another voter; handling
\* an answer never touches the lifecycle's position, the shutdown signal or
\* the process status; and the next valid answer of another voter, with the
\* store working, is stored.
C23_RecorderKeepsServing ==
    /\ [](LastAnswerFailed =>
            \A user_id \in RecorderVoters \ {last_answer.user_id} :
                ENABLED receive_poll_answer(user_id, "p1", <<0>>, TRUE))
    /\ [][/\ pc' = pc
          /\ shutdown_event' = shutdown_event
          /\ exit_code' = exit_code
          /\ effects' = effects]_vars
    /\ [][\A user_id \in RecorderVoters, poll_id \in PollIds,
             option_ids \in OptionIds :
            (/\ LastAnswerFailed
             /\ user_id # last_answer.user_id
             /\ IndexInRange(option_ids)
             /\ db_available
             /\ ~DuplicateKey(db_votes, VoteEntry(user_id, poll_id, 0))
             /\ receive_poll_answer(user_id, poll_id, option_ids, TRUE))
            => VoteEntry(user_id, poll_id, option_ids[1]) \in db_votes']_vars

\* Voter 1's answer was dropped, nothing is stored yet, the store is there
\* and voter 2's answer can be handled.
C23_Witness ==
    /\ last_answer.user_id = 1
    /\ last_answer.outcome = "index_error"
    /\ db_available /\ db_votes = {}
    /\ ENABLED receive_poll_answer(2, "p1", <<1>>, TRUE)

\* option_ids of a valid poll answer.
ValidOptionIds == {<<i>> : i \in 0 .. Len(POLL_OPTIONS) - 1}

\* Two poll answers handled one after the other on the current collection,
\* the first at time "t1" and the second at "t2": what each call did.
HandledInOrder(u1, o1, ok1, u2, o2, ok2) ==
    LET first == HandleAnswerOn(db_votes, "t1", u1, "p1", o1, ok1)
        second == HandleAnswerOn(first.votes, "t2", u2, "p1", o2, ok2)
    IN  [votes |-> second.votes, first |-> first.outcome,
         second |-> second.outcome]

\* A collection with the vote_timestamp of its records blanked.
WithoutTimestamp(votes) == {[d EXCEPT !.vote_timestamp = "-"] : d \in votes}

C25_SingleWriter ==
    /\ [][ReceivePollAnswer => poll_payload' = poll_payload]_vars
    /\ [][poll_payload' # poll_payload => Lifecycle]_vars

\* The lifecycle has written the record up to its close while a vote was
\* stored.
C25_Witness ==
    /\ poll_payload.status = PollStatus.CLOSED
    /\ poll_payload.total_votes > 0
    /\ db_votes # {}

\* C26: as long as stop_poll has not returned the closed poll, the record has
\* total_votes 0, empty option_votes and no poll_end_time; and poll_end_time
\* is set in exactly the step in which the status becomes CLOSED.
C26_TallyOnlyAtClose ==
    /\ [](~HasEffect("stop_poll", "ret") =>
            /\ poll_payload.total_votes = 0
            /\ poll_payload.option_votes = <<>>
            /\ poll_payload.poll_end_time = NoneStr
            /\ poll_payload.status = PollStatus.ACTIVE)
    /\ [][(poll_payload'.poll_end_time # poll_payload.poll_end_time)
            <=> (/\ poll_payload.status # PollStatus.CLOSED
                 /\ poll_payload'.status = PollStatus.CLOSED)]_vars

\* The close request is pending while a vote is already stored: the record
\* has no tally yet.
C26_Witness ==
    /\ pc = "in_stop_poll"
    /\ db_votes # {}
    /\ poll_payload.total_votes = 0
    /\ poll_payload.poll_end_time = NoneStr

\* C27 (as claimed): every record of the votes collection carries a set
\* poll_creation_date, whatever the interleaving of the poll answers with the
\* creation stage.
C27_VoteHasCreationDate ==
    \A d \in db_votes : d.poll_creation_date # NoneStr

\* C28: in the unified script each teardown action (updater.stop,
\* application.stop, application.shutdown) is performed at most once in a
\* run, and a run that ends after the shutdown signal has shut the
\* application down exactly once.
C28_TeardownAtMostOnce ==
    /\ app.updater_stops <= 1
    /\ app.app_stops <= 1
    /\ app.app_shutdowns <= 1
    /\ (variant = "unified" /\ shutdown_event /\ runner = "exited") =>
        /\ app.app_stops = 1
        /\ app.app_shutdowns = 1
        /\ pc = "cancelled"

\* The run is over: the task was cancelled in _shutdown and the finally block
\* of run_bot_async has performed each teardown action.
C28_Witness ==
    /\ variant = "unified"
    /\ runner = "exited"
    /\ pc = "cancelled"
    /\ app.updater_stops = 1 /\ app.app_stops = 1 /\ app.app_shutdowns = 1
====
